---- MODULE Spec2Model ----
(***************************************************************************)
(* A model of phaseflow's AbstractSimulation (abstract_simulation.py): the *)
(* time history, the solution history, the solver lifecycle, deepcopy and  *)
(* the checkpoint codec.  The finite element library (fenics) is external: *)
(* meshes, function spaces and vectors are abstract values, and the        *)
(* outcome of every call into user or library code (a return or a raise)   *)
(* is an input of the action that makes the call.                          *)
(***************************************************************************)
EXTENDS Integers, Sequences, FiniteSets, TLC

(***************************************************************************)
(* Python floats.  _times holds IEEE-754 binary64 values and solve adds    *)
(* them with the + of the language, so the model adds them the same way:   *)
(* the exact sum, rounded to MantissaBits significant bits, ties to even.  *)
(* Only non-negative values occur (times start at 0., step sizes are       *)
(* positive).  Every value of the model is a multiple of 2^-56 (the unit   *)
(* in the last place of 0.1) and far below 2^11, so a float is held as the *)
(* natural number N with value N * 2^-56, written in NLimbs digits of base *)
(* 2^15, least significant first (TLC's integers have 32 bits).            *)
(***************************************************************************)
MantissaBits == 53

Base == 2^15

NLimbs == 1 + 4

Limb(d) == [i \in 1..NLimbs |-> IF i = 1 THEN d ELSE 0]

RECURSIVE CarryInto(_, _, _)
\* The carry into digit i of a + b.
CarryInto(a, b, i) ==
    IF i = 1 THEN 0 ELSE (a[i-1] + b[i-1] + CarryInto(a, b, i - 1)) \div Base

\* The exact sum of two values.
ExactAdd(a, b) == [i \in 1..NLimbs |-> (a[i] + b[i] + CarryInto(a, b, i)) % Base]

RECURSIVE CarryOut(_, _, _)
\* The carry into digit i of a * k, for 0 <= k < Base.
CarryOut(a, k, i) ==
    IF i = 1 THEN 0 ELSE (a[i-1] * k + CarryOut(a, k, i - 1)) \div Base

\* The exact product of a value and a natural number below Base.
ExactTimes(k, a) == [i \in 1..NLimbs |-> (a[i] * k + CarryOut(a, k, i)) % Base]

\* The number of significant bits of a value.
BitLength(a) ==
    LET used == {i \in 1..NLimbs : a[i] # 0}
    IN  IF used = {} THEN 0
        ELSE LET top == CHOOSE i \in used : \A j \in used : j <= i
                 len == CHOOSE k \in 1..15 : a[top] < 2^k /\ a[top] >= 2^(k-1)
             IN  15 * (top - 1) + len

\* Round a value to the nearest float, ties to even.  At most 14 bits are
\* dropped: the sum of two floats of the model has at most 67 bits.
RoundToFloat(a) ==
    LET n == BitLength(a)
    IN  IF n <= MantissaBits THEN a
        ELSE LET p     == 2^(n - MantissaBits)
                 low   == a[1] % p
                 floor == [a EXCEPT ![1] = a[1] - low]
                 odd   == (a[1] \div p) % 2 = 1
                 up    == 2 * low > p \/ (2 * low = p /\ odd)
             IN  IF up THEN ExactAdd(floor, Limb(p)) ELSE floor

\* float.__add__
FAdd(x, y) == RoundToFloat(ExactAdd(x, y))

\* int * float, the int below Base
FMul(k, x) == RoundToFloat(ExactTimes(k, x))

RECURSIVE FromHexDigits(_)
\* The value whose N is written by the hexadecimal digits h.
FromHexDigits(h) ==
    IF Len(h) = 0 THEN Limb(0)
    ELSE ExactAdd(ExactTimes(16, FromHexDigits(SubSeq(h, 1, Len(h) - 1))),
                  Limb(h[Len(h)]))

\* The float 0x1.<13 hexadecimal digits>p<e> (as float.hex() writes it),
\* -4 <= e: N = 0x1<digits> * 2^(e+4).
FromHex(frac, e) == ExactTimes(2^(e + 4), FromHexDigits(<<1>> \o frac))

F0    == Limb(0)                                                 \* 0.
F1    == FromHex(<<0,0,0,0,0,0,0,0,0,0,0,0,0>>, 0)               \* 1.
F0_5  == FromHex(<<0,0,0,0,0,0,0,0,0,0,0,0,0>>, -1)              \* 0.5
F0_1  == FromHex(<<9,9,9,9,9,9,9,9,9,9,9,9,10>>, -4)             \* 0.1
F0_3  == FromHex(<<3,3,3,3,3,3,3,3,3,3,3,3,3>>, -2)              \* 0.3

(***************************************************************************)
(* The values of the external library.                                     *)
(***************************************************************************)
\* hasattr(self, name) is false / the attribute holds None.
NoAttr == [absent |-> TRUE]
None == [none |-> TRUE]

\* fenics.Mesh(): an empty mesh, before anything is read into it.
EmptyMesh == "empty"

\* The mesh of coarse_mesh(), and the meshes a caller may assign.
CoarseMesh == "coarse"
Meshes == {"coarse", "fine"}

\* A function's vector of degrees of freedom; a new Function holds zeros.
ZeroVector == "zero"
Vectors == {"zero", "a", "b"}

\* fenics.FunctionSpace(mesh, element)
FunctionSpace(mesh, element) == [mesh |-> mesh, element |-> element]

\* fenics.Function(V)
Function(V) == [V |-> V, vec |-> ZeroVector]

\* What governing_form() and boundary_conditions() return: opaque to the engine.
GoverningForm == [form |-> "F"]
BoundaryConditions == [bcs |-> "bcs"]

\* What adaptive_goal() returns when the subclass redefines it.
AdaptiveGoal == [functional |-> "goal"]

\* The element of element(): fixed by the subclass.
MixedElement == "P2P1"

(***************************************************************************)
(* Solver parameters: a tree of keys.  A node is a parameter [leaf |-> v]  *)
(* or a nested parameter set [group |-> keys -> nodes].                    *)
(***************************************************************************)
IsLeaf(node) == "leaf" \in DOMAIN node

\* NonlinearVariationalSolver(problem).parameters as constructed.
DefaultSolverParameters ==
    [nonlinear_solver |-> [leaf |-> "newton"],
     newton_solver    |-> [group |-> [maximum_iterations |-> [leaf |-> "50"]]]]

\* AdaptiveNonlinearVariationalSolver(problem, goal).parameters as constructed.
DefaultAdaptiveParameters ==
    [max_iterations |-> [leaf |-> "50"],
     nonlinear_variational_solver |-> [group |-> DefaultSolverParameters]]

VARIABLES
    sims,               \* engine -> the fields of the AbstractSimulation object
    constant_values,    \* fenics.Constant object -> its value
    h5,                 \* the checkpoint file
    has_adaptive_goal,  \* the subclass redefines adaptive_goal()
    op,                 \* the operation that ran last and the calls it made
    script,             \* engine -> how far it is in the solve/advance pattern
    pending_mesh,       \* engine -> a mesh was assigned and no rebuild completed since
    written             \* the writer's histories when the checkpoint was written

vars == <<sims, constant_values, h5, has_adaptive_goal, op, script,
          pending_mesh, written>>

\* The two engine references of a caller: sim, and sim2 = sim.deepcopy() or
\* a second engine constructed by the caller.
Engines == {"sim", "sim2"}

NoSim == [constructed |-> FALSE]

\* The largest time order an engine is constructed with: the constructor
\* takes any, time_discrete_terms tells 1, 2 and more than 2 apart.
MaxTimeOrder == 3

\* The fenics.Constant objects: engine e's constructor makes <<e, i>>.
ConstantIds == Engines \X (0..(MaxTimeOrder - 1))

\* What a method gives back: the object after it, the Constant values after
\* it, whether it raised, and the calls it made into user and library code.
Result(self, heap, raised, calls) ==
    [self |-> self, heap |-> heap, raised |-> raised, calls |-> calls]

\* One call into user or library code, with the current time the callee
\* sees in the engine.
Call(name, self) == [call |-> name, t0 |-> self._times[0]]

\* The call that hands control to a solver, with the state of the engine
\* and of the problem the solver was made for.
SolverCall(name, self, solver) ==
    [call |-> name, t0 |-> self._times[0],
     needs_setup |-> self.solver_needs_setup, problem |-> solver.problem,
     outdated |-> solver.outdated, function_space |-> self._function_space]

(***************************************************************************)
(* Object identity.  A problem holds a reference u to the Function that    *)
(* was self.solution when the problem was made.  No operation puts an old  *)
(* Function back into _solutions[0], so the reference is held as "slot0"   *)
(* (it is the object now in _solutions[0]) or "detached" (it is not).      *)
(* Detach is what replacing the object in _solutions[0] does to the        *)
(* references held by the problems.                                        *)
(***************************************************************************)
DetachProblem(p) == IF p = NoAttr THEN p ELSE [p EXCEPT !.u = "detached"]

DetachSolver(sv) ==
    IF sv = NoAttr \/ sv = None THEN sv
    ELSE [sv EXCEPT !.problem = DetachProblem(sv.problem)]

Detach(self) ==
    [self EXCEPT !._problem = DetachProblem(self._problem),
                 !.solver = DetachSolver(self.solver),
                 !.adaptive_solver = DetachSolver(self.adaptive_solver)]

(***************************************************************************)
(* A solver object also carries, for the claims about rebuilding, whether  *)
(* _mesh or _function_space was assigned to since the solver was made      *)
(* (outdated).  MeshChanged is what such an assignment does to that mark.  *)
(***************************************************************************)
Outdate(sv) ==
    IF sv = NoAttr \/ sv = None THEN sv ELSE [sv EXCEPT !.outdated = TRUE]

MeshChanged(self) ==
    [self EXCEPT !.solver = Outdate(self.solver),
                 !.adaptive_solver = Outdate(self.adaptive_solver)]

(***************************************************************************)
(* AbstractSimulation.__init__, up to the optional setup_solver().         *)
(***************************************************************************)
TimestepRefs(e, time_order) == [i \in 0..(time_order - 1) |-> <<e, i>>]

NewSimulation(e, time_order) ==
    LET V == FunctionSpace(CoarseMesh, MixedElement)
    IN  [constructed           |-> TRUE,
         time_order            |-> time_order,
         _times                |-> [i \in 0..time_order |-> F0],
         _timestep_sizes       |-> TimestepRefs(e, time_order),
         _mesh                 |-> CoarseMesh,
         _element              |-> MixedElement,
         _function_space       |-> V,
         _solutions            |-> [i \in 0..time_order |-> Function(V)],
         newton_solution       |-> Function(V),
         adaptive_solver       |-> None,
         solver_status         |-> [iterations |-> "0", solved |-> FALSE],
         solver_needs_setup    |-> TRUE,
         _governing_form       |-> NoAttr,
         _boundary_conditions  |-> NoAttr,
         _problem              |-> NoAttr,
         solver                |-> NoAttr,
         _adaptive_goal        |-> NoAttr]

\* The Constant(1.) objects the constructor makes.
NewConstants(heap, e, time_order) ==
    [c \in ConstantIds |->
        IF c[1] = e /\ c[2] < time_order THEN F1 ELSE heap[c]]

(***************************************************************************)
(* setup_solver.  fail is the sub-step that raises: 0 none, 1 the          *)
(* governing form, 2 the boundary conditions, 3 the problem, 4 the point   *)
(* solver, 5 the adaptive goal, 6 the adaptive solver.                     *)
(***************************************************************************)
SetupSteps == <<"governing_form", "boundary_conditions",
                "NonlinearVariationalProblem", "NonlinearVariationalSolver",
                "adaptive_goal", "AdaptiveNonlinearVariationalSolver">>

\* The sub-steps setup_solver reaches when sub-step fail raises.
StepsReached(fail, goal) ==
    LET last == IF fail # 0 THEN fail ELSE IF goal THEN 6 ELSE 5
    IN  SubSeq(SetupSteps, 1, last)

\* A rebuild that does not save the parameters of the point solver.
FreshSolverParameters(self) == DefaultSolverParameters

\* The parameters the new point solver ends with.
KeptSolverParameters(self) ==
    IF self.solver # NoAttr THEN self.solver.parameters
    ELSE DefaultSolverParameters

\* The parameters the new adaptive solver ends with.
KeptAdaptiveParameters(self) ==
    IF self.adaptive_solver # None THEN self.adaptive_solver.parameters
    ELSE DefaultAdaptiveParameters

setup_solver(self, heap, fail, goal) ==
    LET s1      == [self EXCEPT !._governing_form = GoverningForm]
        s2      == [s1 EXCEPT !._boundary_conditions = BoundaryConditions]
        problem == [F |-> s2._governing_form, bcs |-> s2._boundary_conditions,
                    u |-> "slot0", V |-> self._solutions[0].V]
        s3      == [s2 EXCEPT !._problem = problem]
        s4      == [s3 EXCEPT !.solver =
                       [parameters |-> KeptSolverParameters(self),
                        problem |-> problem, outdated |-> FALSE]]
        s5      == [s4 EXCEPT !._adaptive_goal = IF goal THEN AdaptiveGoal ELSE None]
        s6      == IF goal
                   THEN [s5 EXCEPT !.adaptive_solver =
                            [parameters |-> KeptAdaptiveParameters(self),
                             problem |-> problem, outdated |-> FALSE]]
                   ELSE s5
        done    == [s6 EXCEPT !.solver_needs_setup = FALSE]
        reached == StepsReached(fail, goal)
        calls   == [i \in 1..Len(reached) |-> Call(reached[i], self)]
        ended   == <<Call(IF fail = 0 THEN "setup_solver returned"
                          ELSE "setup_solver raised", self)>>
    IN  CASE fail = 0 -> Result(done, heap, FALSE, calls \o ended)
          [] fail = 1 -> Result(self, heap, TRUE, calls \o ended)
          [] fail = 2 -> Result(s1, heap, TRUE, calls \o ended)
          [] fail = 3 -> Result(s2, heap, TRUE, calls \o ended)
          [] fail = 4 -> Result(s3, heap, TRUE, calls \o ended)
          [] fail = 5 -> Result(s4, heap, TRUE, calls \o ended)
          [] fail = 6 -> Result(s5, heap, TRUE, calls \o ended)

\* The sub-steps that can raise: the adaptive solver is made only for a goal.
SetupFailures(goal) == IF goal THEN 0..6 ELSE 0..5

(***************************************************************************)
(* The mesh setter and reinit_solutions.                                   *)
(***************************************************************************)
reinit_solutions(self) ==
    LET V == FunctionSpace(self._mesh, self._element)
    IN  Detach(MeshChanged([self EXCEPT
            !._function_space = V,
            !._solutions = [i \in DOMAIN self._solutions |-> Function(V)]]))

\* The mesh setter without its line 93: the flag is left as it was.
set_mesh_keeping_flag(self, heap, value) ==
    Result(reinit_solutions(MeshChanged([self EXCEPT !._mesh = value])),
           heap, FALSE, <<>>)

set_mesh(self, heap, value) ==
    LET s1 == MeshChanged([self EXCEPT !._mesh = value])
        s2 == [s1 EXCEPT !.solver_needs_setup = TRUE]
    IN  Result(reinit_solutions(s2), heap, FALSE, <<>>)

(***************************************************************************)
(* share_solver_parameters.  share_to[key] = value is accepted when key is *)
(* a parameter of share_to and value is a plain value; it raises KeyError  *)
(* when key is not a parameter of share_to (a nested set is not), and the  *)
(* handler then recurses into share_to[key], which raises KeyError again   *)
(* when share_to has no such key at all.  Any other error, and a KeyError  *)
(* of the recursion, ends the call; the keys assigned before it stay.      *)
(***************************************************************************)
\* The keys of a parameter set in the order iteration gives them.
KeySeq(keys) ==
    CHOOSE q \in [1..Cardinality(keys) -> keys] :
        \A i, j \in 1..Cardinality(keys) : i # j => q[i] # q[j]

RECURSIVE share_solver_parameters(_, _)
RECURSIVE ShareKeys(_, _, _)
ShareKeys(share_to, share_from, keys) ==
    IF Len(keys) = 0 THEN [to |-> share_to, raised |-> FALSE]
    ELSE LET key == keys[1]
             value == share_from[key]
         IN  IF key \in DOMAIN share_to /\ IsLeaf(share_to[key])
             THEN IF IsLeaf(value)
                  THEN ShareKeys([share_to EXCEPT ![key] = value],
                                 share_from, Tail(keys))
                  ELSE [to |-> share_to, raised |-> TRUE]
             ELSE IF key \notin DOMAIN share_to \/ IsLeaf(value)
                  THEN [to |-> share_to, raised |-> TRUE]
                  ELSE LET sub == share_solver_parameters(
                                      share_to[key].group, value.group)
                           next == [share_to EXCEPT ![key] = [group |-> sub.to]]
                       IN  IF sub.raised
                           THEN [to |-> next, raised |-> TRUE]
                           ELSE ShareKeys(next, share_from, Tail(keys))

\* share_solver_parameters with an empty loop: nothing is assigned.
share_nothing(share_to_parameters, share_from_parameters) ==
    [to |-> share_to_parameters, raised |-> FALSE]

\* share_solver_parameters with a handler that passes over the keys
\* share_to does not have.
share_known_keys(share_to_parameters, share_from_parameters) ==
    ShareKeys(share_to_parameters, share_from_parameters,
              KeySeq(DOMAIN share_from_parameters
                         \cap DOMAIN share_to_parameters))

share_solver_parameters(share_to_parameters, share_from_parameters) ==
    ShareKeys(share_to_parameters, share_from_parameters,
              KeySeq(DOMAIN share_from_parameters))

(***************************************************************************)
(* solve.  outcome is what the solver that runs does: whether it raises,   *)
(* the vector it leaves in the solution it is bound to, and the iteration  *)
(* count the point solver returns on success.                              *)
(***************************************************************************)
\* The solver writes into the Function its problem refers to.
SolverWrites(self, problem, vec) ==
    IF problem.u = "slot0" THEN [self EXCEPT !._solutions[0].vec = vec]
    ELSE self

\* The time of a solve that adds the step to the time the last solve left.
TimeAfterLastSolve(self, heap) ==
    FAdd(self._times[0], heap[self._timestep_sizes[0]])

\* self._times[1] + self.timestep_size.__float__()
TimeAfterStep(self, heap) ==
    FAdd(self._times[1], heap[self._timestep_sizes[0]])

solve(self, heap, goal_tolerance, fail, goal, outcome) ==
    LET r0 == IF self.solver_needs_setup
              THEN setup_solver(self, heap, fail, goal)
              ELSE Result(self, heap, FALSE, <<>>)
        s0 == r0.self
        s1 == [s0 EXCEPT !._times[0] = TimeAfterStep(s0, heap)]
        \* goal_tolerance is None
        c2 == r0.calls \o <<SolverCall("solver.solve", s1, s1.solver)>>
        s2 == SolverWrites(s1, s1.solver.problem, outcome.vec)
        s3 == [s2 EXCEPT !.solver_status.iterations = outcome.iterations]
        \* goal_tolerance is given
        shared == share_solver_parameters(
                      s1.adaptive_solver.parameters
                          ["nonlinear_variational_solver"].group,
                      s1.solver.parameters)
        a1 == [s1 EXCEPT !.adaptive_solver.parameters
                             ["nonlinear_variational_solver"] =
                                 [group |-> shared.to]]
        ca == r0.calls \o <<Call("share_solver_parameters", s1)>>
        c3 == ca \o <<SolverCall("adaptive_solver.solve", a1, a1.adaptive_solver)>>
        a2 == SolverWrites(a1, a1.adaptive_solver.problem, outcome.vec)
        a3 == [a2 EXCEPT !.solver_status.iterations = "NA"]
    IN  IF r0.raised THEN r0
        ELSE IF goal_tolerance = None
        THEN IF outcome.raises THEN Result(s2, heap, TRUE, c2)
             ELSE Result([s3 EXCEPT !.solver_status.solved = TRUE],
                         heap, FALSE, c2)
        ELSE IF s1.adaptive_solver = None THEN Result(s1, heap, TRUE, r0.calls)
        ELSE IF shared.raised THEN Result(a1, heap, TRUE, ca)
        ELSE IF outcome.raises THEN Result(a2, heap, TRUE, c3)
        ELSE Result([a3 EXCEPT !.solver_status.solved = TRUE], heap, FALSE, c3)

(***************************************************************************)
(* advance                                                                 *)
(***************************************************************************)
\* advance with the order of its two shifts exchanged: slot 2 receives what
\* slot 1 has just received from slot 0.
advance_newest_first(self, heap) ==
    LET ts == self._timestep_sizes
        s1 == [self EXCEPT !._solutions[1].vec = self._solutions[0].vec,
                           !._times[1] = FAdd(F0, self._times[0])]
        s2 == IF self.time_order > 1
              THEN [s1 EXCEPT !._solutions[2].vec = s1._solutions[1].vec,
                              !._times[2] = FAdd(F0, s1._times[1])]
              ELSE s1
        h1 == IF self.time_order > 1
              THEN [heap EXCEPT ![ts[1]] = heap[ts[0]]]
              ELSE heap
    IN  Result(s2, h1, FALSE, <<>>)

advance(self, heap) ==
    LET ts == self._timestep_sizes
        s1 == IF self.time_order > 1
              THEN [self EXCEPT
                       !._solutions[2].vec = self._solutions[1].vec,
                       !._times[2] = FAdd(F0, self._times[1])]
              ELSE self
        h1 == IF self.time_order > 1
              THEN [heap EXCEPT ![ts[1]] = heap[ts[0]]]
              ELSE heap
        s2 == [s1 EXCEPT !._solutions[1].vec = s1._solutions[0].vec]
        s3 == [s2 EXCEPT !._times[1] = FAdd(F0, s2._times[0])]
    IN  Result(s3, h1, FALSE, <<>>)

(***************************************************************************)
(* time_discrete_terms.  fenics.split gives one part per sub-element of    *)
(* the mixed element; the backward difference formulas are library code,   *)
(* so a term is the formula applied, the step sizes and the parts handed   *)
(* to it.  The engines of the model have a time order of 1 or more.        *)
(***************************************************************************)
\* The sub-elements of the mixed element.
ElementComponents == <<"P2", "P1">>

\* fenics.split(self._solutions[slot].leaf_node())
Split(slot) ==
    [i \in 1..Len(ElementComponents) |-> [slot |-> slot, component |-> i]]

time_discrete_terms(self) ==
    LET wnp1 == Split(0)
        wn   == Split(1)
        wnm1 == Split(2)
        ts   == self._timestep_sizes
    IN  IF self.time_order = 1
        THEN [raised |-> FALSE,
              terms  |-> [i \in 1..Len(wn) |->
                             [formula |-> "apply_backward_euler",
                              timestep_sizes |-> <<ts[0]>>,
                              w |-> <<wnp1[i], wn[i]>>]]]
        ELSE IF self.time_order = 2
        THEN [raised |-> FALSE,
              terms  |-> [i \in 1..Len(wn) |->
                             [formula |-> "apply_bdf2",
                              timestep_sizes |-> <<ts[0], ts[1]>>,
                              w |-> <<wnp1[i], wn[i], wnm1[i]>>]]]
        ELSE [raised |-> TRUE, terms |-> <<>>]

\* The sub-step of setup_solver that raises because of the time order: the
\* governing form, when the subclass builds it from time_discrete_terms.
GoverningFormFailure(self, discretizes) ==
    IF discretizes /\ time_discrete_terms(self).raised THEN 1 ELSE 0

(***************************************************************************)
(* What a caller does through the properties and the public attributes:    *)
(* sim.timestep_size.assign(value), sim.solution.vector()[:] = vec,        *)
(* sim.solver.parameters[...] = value, sim.assign_initial_values().        *)
(***************************************************************************)
timestep_size_assign(self, heap, value) ==
    Result(self, [heap EXCEPT ![self._timestep_sizes[0]] = value], FALSE, <<>>)

solution_assign(self, heap, vec) ==
    Result([self EXCEPT !._solutions[0].vec = vec], heap, FALSE, <<>>)

assign_initial_values(self, heap, initial_values) ==
    Result([self EXCEPT !._solutions =
               [i \in DOMAIN self._solutions |->
                   [self._solutions[i] EXCEPT !.vec = initial_values]]],
           heap, FALSE, <<>>)

\* to.vector()[:] = from.vector(): the values are copied when the two
\* vectors have one size, which they have on one function space.
CopyVector(to, from) ==
    IF to.V = from.V THEN [raised |-> FALSE, to |-> [to EXCEPT !.vec = from.vec]]
    ELSE [raised |-> TRUE, to |-> to]

\* reset_initial_guess that also asks for a rebuild of the solver.
reset_initial_guess_marking_dirty(self, heap) ==
    LET c == CopyVector(self._solutions[0], self._solutions[1])
    IN  Result([self EXCEPT !._solutions[0] = c.to,
                            !.solver_needs_setup = TRUE],
               heap, c.raised, <<>>)

reset_initial_guess(self, heap) ==
    LET c == CopyVector(self._solutions[0], self._solutions[1])
    IN  Result([self EXCEPT !._solutions[0] = c.to], heap, c.raised, <<>>)

save_newton_solution(self, heap) ==
    LET c == CopyVector(self.newton_solution, self._solutions[0])
    IN  Result([self EXCEPT !.newton_solution = c.to], heap, c.raised, <<>>)

\* load_newton_solution with the sides of its assignment exchanged.
load_newton_solution_reversed(self, heap) ==
    LET c == CopyVector(self.newton_solution, self._solutions[0])
    IN  Result([self EXCEPT !.newton_solution = c.to], heap, c.raised, <<>>)

load_newton_solution(self, heap) ==
    LET c == CopyVector(self._solutions[0], self.newton_solution)
    IN  Result([self EXCEPT !._solutions[0] = c.to], heap, c.raised, <<>>)

RECURSIVE SetParameter(_, _, _)
\* parameters[path[1]][path[2]]... = value
SetParameter(parameters, path, value) ==
    IF Len(path) = 1 THEN [parameters EXCEPT ![path[1]] = [leaf |-> value]]
    ELSE [parameters EXCEPT ![path[1]] =
             [group |-> SetParameter(parameters[path[1]].group, Tail(path), value)]]

solver_parameters_set(self, heap, path, value) ==
    IF self.solver = NoAttr THEN Result(self, heap, TRUE, <<>>)
    ELSE Result([self EXCEPT !.solver.parameters =
                    SetParameter(self.solver.parameters, path, value)],
                heap, FALSE, <<>>)

adaptive_solver_parameters_set(self, heap, path, value) ==
    IF self.adaptive_solver = None THEN Result(self, heap, TRUE, <<>>)
    ELSE Result([self EXCEPT !.adaptive_solver.parameters =
                    SetParameter(self.adaptive_solver.parameters, path, value)],
                heap, FALSE, <<>>)

(***************************************************************************)
(* deepcopy.  e2 is the name the caller binds the copy to.  The result's   *)
(* self is the copy; the source is not assigned to.                        *)
(***************************************************************************)
\* deepcopy without its line 375: the copy keeps the parameters its own
\* setup_solver gave its solver.
deepcopy_own_parameters(self, heap, e2, fail, goal) ==
    LET sim0  == NewSimulation(e2, self.time_order)
        heap0 == NewConstants(heap, e2, self.time_order)
        V     == FunctionSpace(self._mesh, sim0._element)
        sim3  == Detach([sim0 EXCEPT
                     !._mesh = self._mesh,
                     !._function_space = V,
                     !._solutions = [i \in DOMAIN self._solutions |->
                         [Function(V) EXCEPT !.vec = self._solutions[i].vec]],
                     !._times = [i \in DOMAIN self._solutions |->
                         FAdd(F0, self._times[i])],
                     !._timestep_sizes = self._timestep_sizes])
        r     == setup_solver(sim3, heap0, fail, goal)
    IN  IF r.raised \/ self.solver = NoAttr
        THEN Result(NoSim, heap0, TRUE, r.calls)
        ELSE Result(r.self, heap0, FALSE, r.calls)

deepcopy(self, heap, e2, fail, goal) ==
    LET sim0  == NewSimulation(e2, self.time_order)
        heap0 == NewConstants(heap, e2, self.time_order)
        sim1  == [sim0 EXCEPT !._mesh = self._mesh]
        V     == FunctionSpace(sim1._mesh, sim1._element)
        sim2  == [sim1 EXCEPT !._function_space = V]
        sim3  == Detach([sim2 EXCEPT
                     !._solutions = [i \in DOMAIN self._solutions |->
                         [Function(V) EXCEPT !.vec = self._solutions[i].vec]],
                     !._times = [i \in DOMAIN self._solutions |->
                         FAdd(F0, self._times[i])]])
        sim4  == [sim3 EXCEPT !._timestep_sizes =
                     [i \in DOMAIN self._timestep_sizes |-> self._timestep_sizes[i]]]
        r     == setup_solver(sim4, heap0, fail, goal)
        sim5  == [r.self EXCEPT !.solver.parameters = self.solver.parameters]
    IN  IF r.raised \/ self.solver = NoAttr
        THEN Result(NoSim, heap0, TRUE, r.calls)
        ELSE Result(sim5, heap0, FALSE, r.calls)

(***************************************************************************)
(* The checkpoint file: datasets by tag, one kind per h5.write overload.   *)
(***************************************************************************)
NoTags == [t \in {} |-> 0]

NoFile == [exists |-> FALSE, mesh |-> NoTags, function |-> NoTags, vector |-> NoTags]

\* "solution" + str(i), "time" + str(i)
Tag(prefix, i) == prefix \o ToString(i)

\* write_checkpoint with the time of slot 0 under every time tag.
write_checkpoint_latest_time(self) ==
    LET slots == DOMAIN self._solutions
    IN  [exists   |-> TRUE,
         mesh     |-> [t \in {"mesh"} |-> self._solutions[0].V.mesh],
         function |-> [t \in {Tag("solution", i) : i \in slots} |->
                          LET i == CHOOSE j \in slots : Tag("solution", j) = t
                          IN  self._solutions[i].vec],
         vector   |-> [t \in {Tag("time", i) : i \in slots} |->
                          <<self._times[0]>>]]

write_checkpoint(self) ==
    LET slots == DOMAIN self._solutions
    IN  [exists   |-> TRUE,
         mesh     |-> [t \in {"mesh"} |-> self._solutions[0].V.mesh],
         function |-> [t \in {Tag("solution", i) : i \in slots} |->
                          LET i == CHOOSE j \in slots : Tag("solution", j) = t
                          IN  self._solutions[i].vec],
         vector   |-> [t \in {Tag("time", i) : i \in slots} |->
                          LET i == CHOOSE j \in slots : Tag("time", j) = t
                          IN  <<self._times[i]>>]]

RECURSIVE ReadSlots(_, _, _)
\* The loop of read_checkpoint from slot i on.
ReadSlots(self, file, i) ==
    IF i > self.time_order THEN [self |-> self, raised |-> FALSE]
    ELSE LET fresh == [self EXCEPT !._solutions[i] = Function(self._function_space)]
             s1 == IF i = 0 THEN Detach(fresh) ELSE fresh
             s2 == [s1 EXCEPT !._solutions[i].vec =
                       file.function[Tag("solution", i)]]
             s3 == [s2 EXCEPT !._times[i] = file.vector[Tag("time", i)][1]]
         IN  IF Tag("solution", i) \notin DOMAIN file.function
             THEN [self |-> s1, raised |-> TRUE]
             ELSE IF Tag("time", i) \notin DOMAIN file.vector
             THEN [self |-> s2, raised |-> TRUE]
             ELSE ReadSlots(s3, file, i + 1)

\* read_checkpoint without its line 440: newton_solution stays the Function
\* it was.
read_checkpoint_keeping_newton(self, heap, file, fail, goal) ==
    LET s0   == MeshChanged([self EXCEPT !._mesh = EmptyMesh])
        s1   == [s0 EXCEPT !._mesh = file.mesh["mesh"]]
        s2   == [s1 EXCEPT !._function_space =
                    FunctionSpace(s1._mesh, s1._element)]
        read == ReadSlots(s2, file, 0)
    IN  IF ~file.exists \/ "mesh" \notin DOMAIN file.mesh
        THEN Result(s0, heap, TRUE, <<>>)
        ELSE IF read.raised THEN Result(read.self, heap, TRUE, <<>>)
        ELSE setup_solver(read.self, heap, fail, goal)

read_checkpoint(self, heap, file, fail, goal) ==
    LET s0   == MeshChanged([self EXCEPT !._mesh = EmptyMesh])
        s1   == [s0 EXCEPT !._mesh = file.mesh["mesh"]]
        s2   == [s1 EXCEPT !._function_space =
                    FunctionSpace(s1._mesh, s1._element)]
        read == ReadSlots(s2, file, 0)
        s3   == [read.self EXCEPT !.newton_solution =
                    Function(read.self._function_space)]
    IN  IF ~file.exists \/ "mesh" \notin DOMAIN file.mesh
        THEN Result(s0, heap, TRUE, <<>>)
        ELSE IF read.raised THEN Result(read.self, heap, TRUE, <<>>)
        ELSE setup_solver(s3, heap, fail, goal)

(***************************************************************************)
(* What the model records about a run, beside the program's state.         *)
(***************************************************************************)
NoCalls == <<>>

\* No solution has been saved that solves alone have followed.
Unsaved == "unsaved"

NewScript == [k |-> 0, last |-> "new", dt |-> F0, advances |-> 0,
              saved |-> Unsaved]

OffScript(sc) == [sc EXCEPT !.last = "off"]

\* The place of engine e in the pattern solve, advance, solve, ... of
\* successful solves at one step size, after operation name with result r.
ScriptAfter(sc, name, r, dt) ==
    CASE name = "solve" ->
            IF ~r.raised /\ sc.last \in {"new", "advance"}
                         /\ (sc.k = 0 \/ sc.dt = dt)
            THEN [sc EXCEPT !.k = sc.k + 1, !.last = "solve", !.dt = dt]
            ELSE OffScript(sc)
      [] name = "advance" ->
            IF sc.last = "solve"
            THEN [sc EXCEPT !.last = "advance", !.advances = sc.advances + 1]
            ELSE [OffScript(sc) EXCEPT !.advances = sc.advances + 1]
      [] name = "read_checkpoint" -> OffScript(sc)
      [] OTHER -> sc

\* The values save_newton_solution saved, while only solves and loads have
\* followed it.
SavedAfter(saved, name, r) ==
    CASE name = "save_newton_solution" ->
            IF r.raised THEN Unsaved ELSE r.self._solutions[0].vec
      [] name \in {"solve", "load_newton_solution"} -> saved
      [] OTHER -> Unsaved

Returned(calls, what) == \E i \in 1..Len(calls) : calls[i].call = what

PendingAfter(pending, name, r) ==
    IF name = "mesh" THEN TRUE
    ELSE IF Returned(r.calls, "setup_solver returned") THEN FALSE
    ELSE pending

\* Engine e ran operation name with result r.
Ran(e, name, r) ==
    /\ sims' = [sims EXCEPT ![e] = r.self]
    /\ constant_values' = r.heap
    /\ op' = [name |-> name, self |-> e, raised |-> r.raised, calls |-> r.calls]
    /\ script' = [script EXCEPT ![e] =
           [ScriptAfter(script[e], name, r,
                        constant_values[sims[e]._timestep_sizes[0]])
               EXCEPT !.saved = SavedAfter(script[e].saved, name, r)]]
    /\ pending_mesh' = [pending_mesh EXCEPT ![e] =
           PendingAfter(pending_mesh[e], name, r)]

\* A new engine was bound to e by operation name with result r.
Made(e, name, r, sc) ==
    /\ sims' = [sims EXCEPT ![e] = r.self]
    /\ constant_values' = r.heap
    /\ op' = [name |-> name, self |-> e, raised |-> r.raised, calls |-> r.calls]
    /\ script' = [script EXCEPT ![e] = sc]
    /\ pending_mesh' = [pending_mesh EXCEPT ![e] = FALSE]

(***************************************************************************)
(* The bounds of the model.                                                *)
(***************************************************************************)
\* The engines advance at most MaxAdvances times between them.
MaxAdvances == 3

TimeOrders == {1, 2}

(***************************************************************************)
(* The operations.                                                         *)
(***************************************************************************)
Live(e) == sims[e] # NoSim

\* The advances made so far.
Advances == script["sim"].advances + script["sim2"].advances

\* sim2 = type(sim)(time_order, setup_solver = setup)
Construct(e, time_order, setup, fail) ==
    /\ ~Live(e)
    /\ LET new == NewSimulation(e, time_order)
           heap == NewConstants(constant_values, e, time_order)
           r == IF setup
                THEN setup_solver(new, heap, fail, has_adaptive_goal)
                ELSE Result(new, heap, FALSE, NoCalls)
       IN  Made(e, "__init__",
                IF r.raised THEN [r EXCEPT !.self = NoSim] ELSE r, NewScript)
    /\ UNCHANGED <<h5, has_adaptive_goal, written>>

SetupSolver(e, fail) ==
    /\ Live(e)
    /\ Ran(e, "setup_solver",
           setup_solver(sims[e], constant_values, fail, has_adaptive_goal))
    /\ UNCHANGED <<h5, has_adaptive_goal, written>>

SetMesh(e, value) ==
    /\ Live(e)
    /\ Ran(e, "mesh", set_mesh(sims[e], constant_values, value))
    /\ UNCHANGED <<h5, has_adaptive_goal, written>>

Solve(e, goal_tolerance, fail, outcome) ==
    /\ Live(e)
    /\ Ran(e, "solve", solve(sims[e], constant_values, goal_tolerance, fail,
                             has_adaptive_goal, outcome))
    /\ UNCHANGED <<h5, has_adaptive_goal, written>>

Advance(e) ==
    /\ Live(e)
    /\ Advances < MaxAdvances
    /\ Ran(e, "advance", advance(sims[e], constant_values))
    /\ UNCHANGED <<h5, has_adaptive_goal, written>>

TimeDiscreteTerms(e) ==
    /\ Live(e)
    /\ LET r == time_discrete_terms(sims[e])
       IN  Ran(e, "time_discrete_terms",
               Result(sims[e], constant_values, r.raised,
                      <<[call |-> "time_discrete_terms",
                         t0 |-> sims[e]._times[0], terms |-> r.terms]>>))
    /\ UNCHANGED <<h5, has_adaptive_goal, written>>

\* share_solver_parameters(sim.solver.parameters, share_from), called by
\* the caller.  The destination is changed in place.
ShareSolverParameters(e, share_from) ==
    /\ Live(e)
    /\ sims[e].solver # NoAttr
    /\ LET share_to == sims[e].solver.parameters
           r == share_solver_parameters(share_to, share_from)
       IN  Ran(e, "share_solver_parameters",
               Result([sims[e] EXCEPT !.solver.parameters = r.to],
                      constant_values, r.raised,
                      <<[call |-> "share_solver_parameters",
                         t0 |-> sims[e]._times[0],
                         share_to |-> share_to, share_from |-> share_from]>>))
    /\ UNCHANGED <<h5, has_adaptive_goal, written>>

AssignTimestepSize(e, value) ==
    /\ Live(e)
    /\ Ran(e, "timestep_size.assign",
           timestep_size_assign(sims[e], constant_values, value))
    /\ UNCHANGED <<h5, has_adaptive_goal, written>>

AssignSolution(e, vec) ==
    /\ Live(e)
    /\ Ran(e, "solution.assign", solution_assign(sims[e], constant_values, vec))
    /\ UNCHANGED <<h5, has_adaptive_goal, written>>

AssignInitialValues(e, vec) ==
    /\ Live(e)
    /\ Ran(e, "assign_initial_values",
           assign_initial_values(sims[e], constant_values, vec))
    /\ UNCHANGED <<h5, has_adaptive_goal, written>>

ResetInitialGuess(e) ==
    /\ Live(e)
    /\ Ran(e, "reset_initial_guess", reset_initial_guess(sims[e], constant_values))
    /\ UNCHANGED <<h5, has_adaptive_goal, written>>

SaveNewtonSolution(e) ==
    /\ Live(e)
    /\ Ran(e, "save_newton_solution",
           save_newton_solution(sims[e], constant_values))
    /\ UNCHANGED <<h5, has_adaptive_goal, written>>

LoadNewtonSolution(e) ==
    /\ Live(e)
    /\ Ran(e, "load_newton_solution",
           load_newton_solution(sims[e], constant_values))
    /\ UNCHANGED <<h5, has_adaptive_goal, written>>

SetSolverParameter(e, path, value) ==
    /\ Live(e)
    /\ Ran(e, "solver.parameters",
           solver_parameters_set(sims[e], constant_values, path, value))
    /\ UNCHANGED <<h5, has_adaptive_goal, written>>

SetAdaptiveParameter(e, path, value) ==
    /\ Live(e)
    /\ Ran(e, "adaptive_solver.parameters",
           adaptive_solver_parameters_set(sims[e], constant_values, path, value))
    /\ UNCHANGED <<h5, has_adaptive_goal, written>>

\* sim2 = sim.deepcopy()
Deepcopy(e, e2, fail) ==
    /\ Live(e)
    /\ ~Live(e2)
    /\ Made(e2, "deepcopy",
            deepcopy(sims[e], constant_values, e2, fail, has_adaptive_goal),
            OffScript(NewScript))
    /\ UNCHANGED <<h5, has_adaptive_goal, written>>

WriteCheckpoint(e) ==
    /\ Live(e)
    /\ h5' = write_checkpoint(sims[e])
    /\ written' = [time_order |-> sims[e].time_order,
                   vec |-> [i \in DOMAIN sims[e]._solutions |->
                               sims[e]._solutions[i].vec],
                   times |-> sims[e]._times,
                   timestep_sizes |->
                       [i \in DOMAIN sims[e]._timestep_sizes |->
                           constant_values[sims[e]._timestep_sizes[i]]]]
    /\ Ran(e, "write_checkpoint", Result(sims[e], constant_values, FALSE, NoCalls))
    /\ UNCHANGED has_adaptive_goal

ReadCheckpoint(e, fail) ==
    /\ Live(e)
    /\ Ran(e, "read_checkpoint",
           read_checkpoint(sims[e], constant_values, h5, fail, has_adaptive_goal))
    /\ UNCHANGED <<h5, has_adaptive_goal, written>>

(***************************************************************************)
(* The inputs.                                                             *)
(***************************************************************************)
\* The tolerance of solve(goal_tolerance): None, or a number.
GoalTolerances == {None, [tolerance |-> "1e-4"]}

\* What the solver that runs does.
Outcomes(vecs) ==
    {[raises |-> b, vec |-> v, iterations |-> "3"] : b \in BOOLEAN, v \in vecs}

StepSizes == {F0_1, F0_5}

SolverSettings == {<<<<"nonlinear_solver">>, "snes">>,
                   <<<<"newton_solver", "maximum_iterations">>, "100">>}

AdaptiveSettings == {<<<<"max_iterations">>, "100">>}

\* Parameter sets to share from: sets whose every key path is in the
\* parameters of a point solver, a set with a key they do not have at the
\* top and one with it in a nested set, a nested set where they have a
\* plain value and a plain value where they have a nested set.
ShareSources ==
    {[nonlinear_solver |-> [leaf |-> v]] : v \in {"newton", "snes"}}
    \cup {[newton_solver |->
              [group |-> [maximum_iterations |-> [leaf |-> n]]]] :
              n \in {"50", "100"}}
    \cup {[nonlinear_solver |-> [leaf |-> "snes"],
           newton_solver |-> [group |-> [maximum_iterations |-> [leaf |-> n]]]] :
              n \in {"50", "100"}}
    \cup {[nonlinear_solver |-> [leaf |-> "snes"],
           relative_tolerance |-> [leaf |-> "1e-9"]],
          [newton_solver |->
              [group |-> [maximum_iterations |-> [leaf |-> "100"],
                          relative_tolerance |-> [leaf |-> "1e-9"]]]],
          [nonlinear_solver |->
              [group |-> [maximum_iterations |-> [leaf |-> "100"]]]],
          [newton_solver |-> [leaf |-> "100"]]}

\* The sub-steps that can raise in the rebuild of a solve: none when
\* the solver needs no setup.
RebuildFailures(e) ==
    IF Live(e) /\ sims[e].solver_needs_setup
    THEN SetupFailures(has_adaptive_goal) ELSE {0}

\* The runs of solve: the tolerance, the sub-step of the rebuild that raises
\* and what the solver does.  When the rebuild raises the solver does
\* nothing and the tolerance is not read.
SolveRuns(e, tolerances, vecs) ==
    LET unused == [raises |-> FALSE, vec |-> ZeroVector, iterations |-> "3"]
    IN  (tolerances \X {0} \X Outcomes(vecs))
        \cup ({None} \X (RebuildFailures(e) \ {0}) \X {unused})

\* The runs of solve with the point solver that return.
SolvedRuns(vecs) ==
    {<<None, 0, [raises |-> FALSE, vec |-> v, iterations |-> "3"]>> : v \in vecs}

\* The runs of solve with the point solver on an engine whose subclass
\* builds its governing form from time_discrete_terms, or does not.
DiscretizedRuns(e, vecs) ==
    {<<None, GoverningFormFailure(sims[e], d), o>> :
        d \in BOOLEAN, o \in Outcomes(vecs)}

\* The rebuild that ends read_checkpoint returns, or raises in the
\* constructor of the point solver.
ReadFailures == {0, 4}

NoWritten == [time_order |-> 0, vec |-> <<>>, times |-> <<>>, timestep_sizes |-> <<>>]

\* The state after sim = Subclass(time_order, setup_solver = setup) returned,
\* for a time order in orders.
Start(orders) ==
    /\ has_adaptive_goal \in BOOLEAN
    /\ \E time_order \in orders, setup \in BOOLEAN :
          LET new == NewSimulation("sim", time_order)
              heap == NewConstants([c \in ConstantIds |-> F0], "sim", time_order)
              r == IF setup
                   THEN setup_solver(new, heap, 0, has_adaptive_goal)
                   ELSE Result(new, heap, FALSE, NoCalls)
          IN  /\ sims = [e \in Engines |-> IF e = "sim" THEN r.self ELSE NoSim]
              /\ constant_values = heap
              /\ op = [name |-> "__init__", self |-> "sim", raised |-> FALSE,
                       calls |-> r.calls]
    /\ h5 = NoFile
    /\ script = [e \in Engines |-> NewScript]
    /\ pending_mesh = [e \in Engines |-> FALSE]
    /\ written = NoWritten

\* The solver lifecycle does not read the time order: one order-2 engine.
Init == Start({2})

InitAnyOrder == Start(TimeOrders)

(***************************************************************************)
(* Spec: the solver lifecycle of one engine.  The step size stays the      *)
(* Constant(1.) of the constructor and no checkpoint is written, so every  *)
(* read_checkpoint fails on opening the file.                              *)
(***************************************************************************)
Next ==
    \/ \E f \in SetupFailures(has_adaptive_goal) : SetupSolver("sim", f)
    \/ \E m \in Meshes : SetMesh("sim", m)
    \/ \E run \in SolveRuns("sim", GoalTolerances, {"a"}) :
          Solve("sim", run[1], run[2], run[3])
    \/ \E ps \in {<<<<"newton_solver", "maximum_iterations">>, "100">>} :
          SetSolverParameter("sim", ps[1], ps[2])
    \/ \E ps \in AdaptiveSettings : SetAdaptiveParameter("sim", ps[1], ps[2])
    \/ ReadCheckpoint("sim", 0)

Spec == Init /\ [][Next]_vars

(***************************************************************************)
(* The claims checked under Spec.                                          *)
(***************************************************************************)
IsSolverCall(c) == c.call \in {"solver.solve", "adaptive_solver.solve"}

\* The solver of call c was made after the last assignment to the mesh or
\* the function space, for the Function now in _solutions[0] on the function
\* space the engine holds.
BuiltForCurrentMesh(c) ==
    /\ ~c.outdated
    /\ c.problem.u = "slot0"
    /\ c.problem.V = c.function_space

\* C1: whenever solve hands control to the point solver or the adaptive
\* solver, solver_needs_setup is false and the solver was built by a
\* setup_solver that ran after the most recent change of the mesh or the
\* function space.
C1_SolveRunsReadySolver ==
    \A i \in 1..Len(op.calls) :
        IsSolverCall(op.calls[i]) =>
            ~op.calls[i].needs_setup /\ BuiltForCurrentMesh(op.calls[i])

\* The calls of setup_solver in a sequence of calls.
SetupEnds(calls) ==
    {i \in 1..Len(calls) :
        calls[i].call \in {"setup_solver returned", "setup_solver raised"}}

\* Exactly one setup_solver ran, and the solver, when it ran, ran after it
\* returned and against what it built.
OneSetupThenSolver(calls) ==
    /\ Cardinality(SetupEnds(calls)) = 1
    /\ \A i \in 1..Len(calls) :
          IsSolverCall(calls[i]) =>
              /\ \E j \in 1..(i - 1) : calls[j].call = "setup_solver returned"
              /\ ~calls[i].needs_setup
              /\ BuiltForCurrentMesh(calls[i])

\* Every slot of the solution history is a Function on the function space
\* built from the engine's mesh.
SlotsOnMesh(self) ==
    /\ self._function_space = FunctionSpace(self._mesh, self._element)
    /\ \A i \in DOMAIN self._solutions :
          self._solutions[i].V = self._function_space

\* C2: after a mesh is assigned, every solution slot is bound to the
\* function space built from the new mesh and solver_needs_setup is true;
\* the next solve, with no rebuild in between, performs exactly one
\* setup_solver, before it runs the solver.
C2_MeshChangeRebuildsOnce ==
    [][\A e \in Engines :
          /\ (op'.name = "mesh" /\ op'.self = e) =>
                 SlotsOnMesh(sims'[e]) /\ sims'[e].solver_needs_setup
          /\ (pending_mesh[e] /\ op'.name = "solve" /\ op'.self = e) =>
                 OneSetupThenSolver(op'.calls)]_vars

\* A solve rebuilt the solver once and ran it, after the mesh was changed.
C2_Witness ==
    /\ op.name = "solve" /\ ~op.raised
    /\ Returned(op.calls, "setup_solver returned")
    /\ Returned(op.calls, "solver.solve")
    /\ sims["sim"]._mesh = "fine"
    /\ sims["sim"]._solutions[0].V.mesh = "fine"
    /\ sims["sim"]._solutions[0].vec = "a"

\* The solver of the last call of an operation raised.
SolverRaised(o) ==
    o.name = "solve" /\ o.raised /\ Len(o.calls) > 0
    /\ IsSolverCall(o.calls[Len(o.calls)])

\* C7: when the solver call inside solve raises, solver_status.solved is
\* false afterwards and every solution slot other than slot 0 is unchanged.
C7_FailedSolveNotSolved ==
    [][\A e \in Engines :
          (SolverRaised(op') /\ op'.self = e) =>
              /\ ~sims'[e].solver_status.solved
              /\ \A i \in 1..sims[e].time_order :
                    sims'[e]._solutions[i] = sims[e]._solutions[i]]_vars

\* C9: when a sub-step of setup_solver raises, whoever called it,
\* solver_needs_setup is true afterwards and the caller's call raises.
C9_SetupNeverPartial ==
    (Returned(op.calls, "setup_solver raised") /\ Live(op.self)) =>
        op.raised /\ sims[op.self].solver_needs_setup

\* C10: a setup_solver call keeps the configuration of the point solver,
\* and of the adaptive solver when an adaptive goal is defined, that the
\* engine held just before the call; so does any number of them in a row.
C10_ParametersSurviveRebuild ==
    [][\A e \in Engines :
          (op'.name = "setup_solver" /\ op'.self = e) =>
              /\ sims[e].solver # NoAttr =>
                    sims'[e].solver.parameters = sims[e].solver.parameters
              /\ (has_adaptive_goal /\ sims[e].adaptive_solver # None) =>
                    sims'[e].adaptive_solver.parameters =
                        sims[e].adaptive_solver.parameters]_vars

\* A setup_solver call returned on an engine whose two solvers hold
\* values the caller set.
C10_Witness ==
    /\ op.name = "setup_solver" /\ ~op.raised
    /\ sims["sim"].solver.parameters # DefaultSolverParameters
    /\ sims["sim"].adaptive_solver # None
    /\ sims["sim"].adaptive_solver.parameters["max_iterations"].leaf = "100"

(***************************************************************************)
(* SpecTime: time stepping of one engine.  The caller sets the step size,  *)
(* solves and advances; a solve can fail in its rebuild or in the solver.  *)
(***************************************************************************)
NextTime ==
    \/ \E dt \in StepSizes : AssignTimestepSize("sim", dt)
    \/ \E run \in SolveRuns("sim", {None}, {"a"}) :
          Solve("sim", run[1], run[2], run[3])
    \/ Advance("sim")

SpecTime == InitAnyOrder /\ [][NextTime]_vars

RECURSIVE RunningSum(_, _)
\* dt + dt + ... + dt, k terms added from the left in float arithmetic.
RunningSum(k, dt) == IF k = 0 THEN F0 ELSE FAdd(RunningSum(k - 1, dt), dt)

\* The float next above 0.3: 0x1.3333333333334p-2 = 0.30000000000000004.
F0_3_Up == FromHex(<<3, 3, 3, 3, 3, 3, 3, 3, 3, 3, 3, 3, 4>>, -2)

\* Engine e is k >= 1 solves into the pattern solve, advance, solve, ... at
\* one step size, from a fresh engine.
OnScript(e) ==
    Live(e) /\ script[e].k >= 1 /\ script[e].last \in {"solve", "advance"}

\* C3 as stated: the time history is the exact multiples k*dt, (k-1)*dt,
\* max(k-2, 0)*dt of the step size, [1.0, 0.5, 0.0] for order 2 with
\* dt = 0.5 and k = 2, and time == 0.3 after three (solve, advance) pairs
\* of order 1 with dt = 0.1.
C3_TimesAreMultiples ==
    \A e \in Engines :
        OnScript(e) =>
            LET k  == script[e].k
                dt == script[e].dt
                t  == sims[e]._times
            IN  /\ script[e].last = "solve" =>
                      /\ t[0] = FMul(k, dt)
                      /\ t[1] = FMul(k - 1, dt)
                      /\ sims[e].time_order = 2 =>
                             t[2] = FMul(IF k >= 2 THEN k - 2 ELSE 0, dt)
                /\ (script[e].last = "advance" /\ sims[e].time_order = 1
                        /\ dt = F0_1 /\ k = 3) =>
                      t[0] = F0_3

\* C3, amended: the time history is the running float sums of the step
\* size, k, k-1 and max(k-2, 0) terms long; they are the exact multiples for
\* dt = 0.5 ([1.0, 0.5, 0.0] at k = 2, order 2), and after three (solve,
\* advance) pairs of order 1 with dt = 0.1 the time is the float next above
\* 0.3, 0.30000000000000004.
C3_TimesAreRunningSums ==
    \A e \in Engines :
        OnScript(e) =>
            LET k  == script[e].k
                dt == script[e].dt
                t  == sims[e]._times
                advanced == script[e].last = "advance"
            IN  /\ t[0] = RunningSum(k, dt)
                /\ t[1] = RunningSum(IF advanced THEN k ELSE k - 1, dt)
                /\ sims[e].time_order = 2 =>
                      t[2] = RunningSum(IF advanced THEN k - 1
                                        ELSE IF k >= 2 THEN k - 2 ELSE 0, dt)
                /\ dt = F0_5 => t[0] = FMul(k, F0_5)
                /\ (~advanced /\ sims[e].time_order = 2 /\ dt = F0_5 /\ k = 2) =>
                      t = (0 :> F1 @@ 1 :> F0_5 @@ 2 :> F0)
                /\ (sims[e].time_order = 1 /\ dt = F0_1 /\ k = 3) =>
                      t[0] = F0_3_Up /\ t[0] # F0_3

\* Three (solve, advance) pairs of an order-1 engine with step size 0.1.
C3_Witness ==
    /\ Live("sim") /\ sims["sim"].time_order = 1
    /\ script["sim"].k = 3 /\ script["sim"].last = "advance"
    /\ script["sim"].dt = F0_1
    /\ sims["sim"]._times[0] = sims["sim"]._times[1]
    /\ sims["sim"]._times[0] # F0_3

\* The calls of a solve that read the current time: the two methods of the
\* subclass the rebuild calls, and the run of a solver.
ReadsTime(c) ==
    c.call \in {"governing_form", "boundary_conditions", "solver.solve",
                "adaptive_solver.solve"}

\* C16: in a solve the governing form and the boundary conditions of a
\* rebuild, and the solver run, all see t0 = t1 + dt0.
C16_RebuildSeesUpdatedTime ==
    \A e \in Engines :
        (op.name = "solve" /\ op.self = e) =>
            \A i \in 1..Len(op.calls) :
                ReadsTime(op.calls[i]) =>
                    op.calls[i].t0 = TimeAfterStep(sims[e], constant_values)

\* The solver of a call ran.
SolverRan(calls) ==
    Returned(calls, "solver.solve") \/ Returned(calls, "adaptive_solver.solve")

NextCopy ==
    \/ \E f \in SetupFailures(has_adaptive_goal) : Deepcopy("sim", "sim2", f)
    \/ Live("sim2") /\ \E e \in Engines : AssignTimestepSize(e, F0_5)
    \/ AssignSolution("sim2", "b")
    \/ \E e \in Engines :
          \E run \in SolvedRuns({"a"}) : Solve(e, run[1], run[2], run[3])
    \/ Live("sim2") /\ \E e \in Engines : Advance(e)

SpecCopy == InitAnyOrder /\ [][NextCopy]_vars

\* What a caller sees of engine state s: the values of its solution slots,
\* its times and its timestep sizes.
Observed(s, heap) ==
    [solutions      |-> [i \in DOMAIN s._solutions |-> s._solutions[i].vec],
     times          |-> s._times,
     timestep_sizes |-> [i \in DOMAIN s._timestep_sizes |->
                            heap[s._timestep_sizes[i]]]]

\* C4: once an engine has a deepcopy, no operation on one of the two
\* engines changes the solution slots, the times or the timestep sizes
\* of the other.
C4_DeepcopyIsolation ==
    [][\A e \in Engines :
          (Live(e) /\ op'.self # e) =>
              Observed(sims'[e], constant_values') =
                  Observed(sims[e], constant_values)]_vars

(***************************************************************************)
(* SpecCheckpoint: engine sim is given a finer mesh, solves and advances,   *)
(* every solve returning, and writes a checkpoint; the caller then         *)
(* constructs engines sim2 and reads the checkpoint into them.             *)
(***************************************************************************)
NextCheckpoint ==
    \/ ~h5.exists /\ ~pending_mesh["sim"] /\ SetMesh("sim", "fine")
    \/ /\ ~h5.exists
       /\ \E run \in SolvedRuns({"a", "b"}) :
             Solve("sim", run[1], run[2], run[3])
    \/ ~h5.exists /\ Advance("sim")
    \/ ~h5.exists /\ WriteCheckpoint("sim")
    \/ /\ h5.exists
       /\ \E time_order \in TimeOrders, setup \in BOOLEAN :
             Construct("sim2", time_order, setup, 0)
    \/ \E f \in ReadFailures : ReadCheckpoint("sim2", f)

SpecCheckpoint == InitAnyOrder /\ [][NextCheckpoint]_vars

\* C5: a read_checkpoint that returns, into an engine of the time order of
\* the engine that wrote the checkpoint, leaves in every slot the solution
\* values and the time the writer had in that slot when it wrote, and
\* leaves solver_needs_setup false.
C5_CheckpointRoundTrip ==
    [][\A e \in Engines :
          (op'.name = "read_checkpoint" /\ op'.self = e /\ ~op'.raised
               /\ sims[e].time_order = written.time_order) =>
              /\ \A i \in 0..sims[e].time_order :
                    /\ sims'[e]._solutions[i].vec = written.vec[i]
                    /\ sims'[e]._times[i] = written.times[i]
              /\ ~sims'[e].solver_needs_setup]_vars

\* An order-2 engine read the checkpoint of an order-2 engine that had
\* solved, advanced and solved again.
C5_Witness ==
    /\ op.name = "read_checkpoint" /\ ~op.raised /\ op.self = "sim2"
    /\ sims["sim2"].time_order = 2 /\ written.time_order = 2
    /\ sims["sim2"]._solutions[0].vec = "b"
    /\ sims["sim2"]._solutions[1].vec = "a"
    /\ sims["sim2"]._times[1] # F0
    /\ sims["sim2"]._times[0] # sims["sim2"]._times[1]

\* The tags of the times in a checkpoint of engine state s.
TimeTags(s) == {Tag("time", i) : i \in DOMAIN s._solutions}

\* C6: after write_checkpoint the file holds every solution slot, every
\* time and every timestep size of the engine.
C6_CheckpointStoresAll ==
    \A e \in Engines :
        (op.name = "write_checkpoint" /\ op.self = e) =>
            /\ \A i \in DOMAIN sims[e]._solutions :
                  /\ Tag("solution", i) \in DOMAIN h5.function
                  /\ h5.function[Tag("solution", i)] = sims[e]._solutions[i].vec
                  /\ Tag("time", i) \in DOMAIN h5.vector
                  /\ h5.vector[Tag("time", i)] = <<sims[e]._times[i]>>
            /\ \A i \in DOMAIN sims[e]._timestep_sizes :
                  \E t \in (DOMAIN h5.vector) \ TimeTags(sims[e]) :
                      h5.vector[t] = <<constant_values[sims[e]._timestep_sizes[i]]>>

\* The mesh, the function space, the solution history and the time history
\* of engine state s.
Restored(s) ==
    [mesh |-> s._mesh, function_space |-> s._function_space,
     solutions |-> s._solutions, times |-> s._times]

\* C8: a read_checkpoint that fails on a tag of an existing file either
\* leaves the mesh, the function space, the solution history and the time
\* history as they were, or leaves solver_needs_setup true.
C8_FailedReadKeepsOrInvalidates ==
    [][\A e \in Engines :
          (op'.name = "read_checkpoint" /\ op'.self = e /\ op'.raised
               /\ h5.exists /\ SetupEnds(op'.calls) = {}) =>
              \/ Restored(sims'[e]) = Restored(sims[e])
              \/ sims'[e].solver_needs_setup]_vars

\* The solver s is bound to slot 0 of self and built on function space V.
BoundTo(s, self, V) ==
    /\ s.problem.u = "slot0" /\ ~s.outdated
    /\ s.problem.V = V /\ self._solutions[0].V = V

\* C18: after a read_checkpoint that returns, newton_solution and every
\* solution slot are on the function space of the mesh that was read, the
\* solvers are built on that function space and solver_needs_setup is
\* false, whatever mesh the engine held before.
C18_ReadLeavesEngineReady ==
    \A e \in Engines :
        (op.name = "read_checkpoint" /\ op.self = e /\ ~op.raised) =>
            LET self == sims[e]
                V    == FunctionSpace(h5.mesh["mesh"], self._element)
            IN  /\ self.newton_solution.V = V
                /\ \A i \in 0..self.time_order : self._solutions[i].V = V
                /\ BoundTo(self.solver, self, V)
                /\ has_adaptive_goal => BoundTo(self.adaptive_solver, self, V)
                /\ ~self.solver_needs_setup

\* An engine made on the coarse mesh read a checkpoint of the fine mesh.
C18_Witness ==
    /\ op.name = "read_checkpoint" /\ op.self = "sim2" /\ ~op.raised
    /\ h5.mesh["mesh"] = "fine"
    /\ sims["sim2"].newton_solution.V.mesh = "fine"
    /\ sims["sim2"].solver_status.solved = FALSE

(***************************************************************************)
(* SpecClone: the caller configures the point solver of an engine, sets    *)
(* its step size, solves and advances it, and then copies it.              *)
(***************************************************************************)
\* The rebuild inside deepcopy returns, or raises in the constructor of the
\* problem.
CopyFailures == {0, 3}

NextClone ==
    \/ /\ ~Live("sim2")
       /\ SetSolverParameter("sim", <<"nonlinear_solver">>, "snes")
    \/ ~Live("sim2") /\ AssignTimestepSize("sim", F0_5)
    \/ /\ ~Live("sim2")
       /\ \E run \in SolvedRuns({"a", "b"}) : Solve("sim", run[1], run[2], run[3])
    \/ ~Live("sim2") /\ Advance("sim")
    \/ \E f \in CopyFailures : Deepcopy("sim", "sim2", f)

SpecClone == InitAnyOrder /\ [][NextClone]_vars

\* C11: a deepcopy that returns gives an engine with the time order of the
\* source, the time, the timestep size and the solution values of the
\* source in every slot, the parameters of the source's point solver, and
\* solver_needs_setup false.
C11_DeepcopyEqualsSource ==
    [][(op'.name = "deepcopy" /\ ~op'.raised /\ op'.self = "sim2") =>
          /\ sims'["sim2"].time_order = sims["sim"].time_order
          /\ Observed(sims'["sim2"], constant_values') =
                 Observed(sims["sim"], constant_values)
          /\ sims'["sim2"].solver.parameters = sims["sim"].solver.parameters
          /\ ~sims'["sim2"].solver_needs_setup]_vars

\* The copy of an order-2 engine that was configured, solved and advanced.
C11_Witness ==
    /\ op.name = "deepcopy" /\ ~op.raised /\ Live("sim2")
    /\ sims["sim2"].time_order = 2
    /\ sims["sim2"].solver.parameters # DefaultSolverParameters
    /\ sims["sim2"]._times[1] # F0
    /\ sims["sim2"]._solutions[0].vec = "b"
    /\ sims["sim2"]._solutions[1].vec = "a"
    /\ constant_values[sims["sim2"]._timestep_sizes[0]] = F0_5

(***************************************************************************)
(* SpecOrders: one engine of time order 1, 2 or 3.  The caller overwrites  *)
(* its solution, sets its step size, asks for its time discrete terms,     *)
(* solves and advances.                                                    *)
(***************************************************************************)
NextOrders ==
    \/ AssignTimestepSize("sim", F0_5)
    \/ AssignSolution("sim", "b")
    \/ TimeDiscreteTerms("sim")
    \/ \E run \in DiscretizedRuns("sim", {"a"}) :
          Solve("sim", run[1], run[2], run[3])
    \/ Advance("sim")

InitOrders == Start(1..MaxTimeOrder)

SpecOrders == InitOrders /\ [][NextOrders]_vars

\* C12: advance moves the history one slot back for every time order: for
\* i in 1..time_order time slot i and solution slot i hold what slot i-1
\* held, for i in 1..time_order-1 step-size slot i holds what step-size
\* slot i-1 held, and slot 0 of each is unchanged.
C12_AdvanceShiftsEverySlot ==
    [][\A e \in Engines :
          (op'.name = "advance" /\ op'.self = e) =>
              LET old == Observed(sims[e], constant_values)
                  new == Observed(sims'[e], constant_values')
              IN  /\ \A i \in 1..sims[e].time_order :
                        /\ new.times[i] = old.times[i - 1]
                        /\ new.solutions[i] = old.solutions[i - 1]
                  /\ \A i \in 1..(sims[e].time_order - 1) :
                        new.timestep_sizes[i] = old.timestep_sizes[i - 1]
                  /\ new.times[0] = old.times[0]
                  /\ new.solutions[0] = old.solutions[0]
                  /\ new.timestep_sizes[0] = old.timestep_sizes[0]]_vars

\* C13: time_discrete_terms gives one term per component of the mixed
\* solution for time order 1 (backward Euler) and 2 (BDF2 with both step
\* sizes), and raises without terms for time order 3 or more; an engine of
\* time order 3 or more never completes a solve.
C13_OnlyOrdersOneAndTwoRun ==
    \A e \in Engines :
        Live(e) =>
            /\ (op.name = "time_discrete_terms" /\ op.self = e) =>
                  LET terms == op.calls[1].terms
                      ts    == sims[e]._timestep_sizes
                  IN  /\ sims[e].time_order = 1 =>
                            /\ ~op.raised /\ Len(terms) = Len(ElementComponents)
                            /\ \A i \in 1..Len(terms) :
                                  /\ terms[i].formula = "apply_backward_euler"
                                  /\ terms[i].timestep_sizes = <<ts[0]>>
                      /\ sims[e].time_order = 2 =>
                            /\ ~op.raised /\ Len(terms) = Len(ElementComponents)
                            /\ \A i \in 1..Len(terms) :
                                  /\ terms[i].formula = "apply_bdf2"
                                  /\ terms[i].timestep_sizes = <<ts[0], ts[1]>>
                      /\ sims[e].time_order >= 3 => op.raised /\ terms = <<>>
            /\ sims[e].time_order >= 3 => ~sims[e].solver_status.solved

(***************************************************************************)
(* The claims about solve checked under Spec, for every run of solve on    *)
(* every engine state Spec reaches.                                        *)
(***************************************************************************)
\* Call a comes before call b in calls.
CalledBefore(calls, a, b) ==
    \E i, j \in 1..Len(calls) :
        i < j /\ calls[i].call = a /\ calls[j].call = b

\* C14: a solve that returns leaves solver_status.solved true; without
\* goal_tolerance only the point solver runs and solver_status.iterations
\* is the count it returned; with goal_tolerance the parameters of the point
\* solver are first shared into the adaptive solver's nested parameters,
\* then only the adaptive solver runs, and solver_status.iterations is "NA".
C14_SolveReportsByPath ==
    \A e \in Engines :
        Live(e) =>
            \A run \in SolveRuns(e, GoalTolerances, {"a"}) :
                LET r == solve(sims[e], constant_values, run[1], run[2],
                               has_adaptive_goal, run[3])
                    status == r.self.solver_status
                IN  ~r.raised =>
                        /\ status.solved
                        /\ run[1] = None =>
                              /\ status.iterations = run[3].iterations
                              /\ Returned(r.calls, "solver.solve")
                              /\ ~Returned(r.calls, "adaptive_solver.solve")
                        /\ run[1] # None =>
                              /\ status.iterations = "NA"
                              /\ CalledBefore(r.calls, "share_solver_parameters",
                                              "adaptive_solver.solve")
                              /\ ~Returned(r.calls, "solver.solve")
                              /\ r.self.adaptive_solver.parameters
                                     ["nonlinear_variational_solver"].group
                                   = r.self.solver.parameters

\* A solve with goal_tolerance returned on an engine whose point solver
\* holds a value the caller set.
C14_Witness ==
    /\ op.name = "solve" /\ ~op.raised
    /\ Returned(op.calls, "adaptive_solver.solve")
    /\ sims["sim"].solver_status = [iterations |-> "NA", solved |-> TRUE]
    /\ sims["sim"].solver.parameters # DefaultSolverParameters
    /\ sims["sim"].adaptive_solver.parameters
           ["nonlinear_variational_solver"].group = sims["sim"].solver.parameters

(***************************************************************************)
(* SpecShare: the caller builds the solver of an engine, sets parameters   *)
(* of it and shares parameter sets into it.                                *)
(***************************************************************************)
NextShare ==
    \/ SetupSolver("sim", 0)
    \/ \E ps \in SolverSettings : SetSolverParameter("sim", ps[1], ps[2])
    \/ \E share_from \in ShareSources : ShareSolverParameters("sim", share_from)

SpecShare == InitAnyOrder /\ [][NextShare]_vars

RECURSIVE KeyPathsExist(_, _)
\* Every key path of share_from is a key path of share_to, with a plain
\* value where share_from has one and a nested set where it has one.
KeyPathsExist(share_from, share_to) ==
    \A key \in DOMAIN share_from :
        /\ key \in DOMAIN share_to
        /\ IF IsLeaf(share_from[key]) THEN IsLeaf(share_to[key])
           ELSE /\ ~IsLeaf(share_to[key])
                /\ KeyPathsExist(share_from[key].group, share_to[key].group)

RECURSIVE KeyAbsent(_, _)
\* Some key path of share_from leads to a key share_to does not have.
KeyAbsent(share_from, share_to) ==
    \E key \in DOMAIN share_from :
        \/ key \notin DOMAIN share_to
        \/ /\ ~IsLeaf(share_from[key]) /\ ~IsLeaf(share_to[key])
           /\ KeyAbsent(share_from[key].group, share_to[key].group)

RECURSIVE LeavesShared(_, _, _)
\* Every leaf of share_from is equal in after, and what share_from does
\* not name is in after as it was in before.
LeavesShared(share_from, before, after) ==
    /\ DOMAIN after = DOMAIN before
    /\ \A key \in DOMAIN before :
          IF key \notin DOMAIN share_from THEN after[key] = before[key]
          ELSE IF IsLeaf(share_from[key]) THEN after[key] = share_from[key]
          ELSE /\ ~IsLeaf(after[key])
               /\ LeavesShared(share_from[key].group, before[key].group,
                               after[key].group)

\* C15: share_solver_parameters ends; when every key path of the source is
\* in the destination it returns and leaves every leaf of the source equal
\* in the destination, the rest of the destination as it was; when a key
\* of the source is absent from the destination it raises.
C15_ShareSetsEveryLeaf ==
    \A e \in Engines :
        (op.name = "share_solver_parameters" /\ op.self = e) =>
            LET share_to   == op.calls[1].share_to
                share_from == op.calls[1].share_from
                after      == sims[e].solver.parameters
            IN  /\ KeyPathsExist(share_from, share_to) =>
                      ~op.raised /\ LeavesShared(share_from, share_to, after)
                /\ KeyAbsent(share_from, share_to) => op.raised

\* A nested value was shared into parameters that held another.
C15_Witness ==
    /\ op.name = "share_solver_parameters" /\ ~op.raised
    /\ op.calls[1].share_to["newton_solver"].group["maximum_iterations"].leaf = "50"
    /\ op.calls[1].share_to["nonlinear_solver"].leaf = "newton"
    /\ sims["sim"].solver.parameters =
           [nonlinear_solver |-> [leaf |-> "snes"],
            newton_solver |-> [group |-> [maximum_iterations |-> [leaf |-> "100"]]]]

(***************************************************************************)
(* SpecNewton: one engine is given initial values and a finer mesh, solves *)
(* with the point solver, the solve returning or failing, and saves and    *)
(* loads its Newton solution.                                              *)
(***************************************************************************)
NextNewton ==
    \/ AssignInitialValues("sim", "b")
    \/ SetMesh("sim", "fine")
    \/ \E run \in SolveRuns("sim", {None}, {"a", "b"}) :
          Solve("sim", run[1], run[2], run[3])
    \/ SaveNewtonSolution("sim")
    \/ LoadNewtonSolution("sim")

SpecNewton == InitAnyOrder /\ [][NextNewton]_vars

\* The solution slots 1..time_order, the time history, the timestep sizes
\* and solver_needs_setup of an engine.
History(self, heap) ==
    [solutions |-> [i \in 1..self.time_order |-> self._solutions[i]],
     times |-> self._times,
     timestep_sizes |-> [i \in DOMAIN self._timestep_sizes |->
                            heap[self._timestep_sizes[i]]],
     solver_needs_setup |-> self.solver_needs_setup]

\* C19: a load_newton_solution that follows a save_newton_solution with
\* only solves, returning or failed, between them returns and leaves in
\* solution slot 0 the values it had at the save; a save and a load leave
\* solution slots 1..time_order, the time history, the timestep sizes and
\* solver_needs_setup as they were.
C19_LoadRestoresSaved ==
    [][\A e \in Engines :
          /\ (op'.name = "load_newton_solution" /\ op'.self = e
                  /\ script[e].saved # Unsaved) =>
                /\ ~op'.raised
                /\ sims'[e]._solutions[0].vec = script[e].saved
          /\ (op'.name \in {"save_newton_solution", "load_newton_solution"}
                  /\ op'.self = e) =>
                History(sims'[e], constant_values') =
                    History(sims[e], constant_values)]_vars

\* Values "a" were saved, a solve failed and left "b", and the load put "a"
\* back.
C19_Witness ==
    /\ op.name = "load_newton_solution" /\ ~op.raised
    /\ script["sim"].saved = "a"
    /\ sims["sim"]._solutions[0].vec = "a"
    /\ sims["sim"].solver_status.solved = FALSE
    /\ sims["sim"].solver # NoAttr
    /\ sims["sim"]._solutions[1].vec = "b"

(***************************************************************************)
(* SpecFlag: one engine is given a finer mesh, rebuilds its solver, solves *)
(* and advances, sets and resets its solutions, saves and loads its Newton *)
(* solution, and in the end writes a checkpoint.                           *)
(***************************************************************************)
NextFlag ==
    \/ ~h5.exists /\ SetMesh("sim", "fine")
    \/ ~h5.exists /\ \E fail \in {0, 3} : SetupSolver("sim", fail)
    \/ /\ ~h5.exists
       /\ \E run \in SolvedRuns({"a"}) : Solve("sim", run[1], run[2], run[3])
    \/ ~h5.exists /\ Advance("sim")
    \/ ~h5.exists /\ AssignInitialValues("sim", "a")
    \/ ~h5.exists /\ ResetInitialGuess("sim")
    \/ ~h5.exists /\ SaveNewtonSolution("sim")
    \/ ~h5.exists /\ LoadNewtonSolution("sim")
    \/ WriteCheckpoint("sim")

SpecFlag == Init /\ [][NextFlag]_vars

\* The sub-steps of setup_solver among the calls of an operation.
RebuildCalls(calls) ==
    {i \in 1..Len(calls) :
        \E j \in 1..Len(SetupSteps) : calls[i].call = SetupSteps[j]}

\* C20: solver_needs_setup goes from false to true only in an assignment
\* of the mesh and from true to false only in an operation in which
\* setup_solver returns; advance, assign_initial_values,
\* reset_initial_guess, save_newton_solution, load_newton_solution and
\* write_checkpoint leave it as it was, and a solve of an engine that needs
\* no setup rebuilds nothing.
C20_FlagChangesAtTwoPlaces ==
    [][\A e \in Engines :
          (Live(e) /\ op'.self = e) =>
              /\ (~sims[e].solver_needs_setup /\ sims'[e].solver_needs_setup)
                     => op'.name = "mesh"
              /\ (sims[e].solver_needs_setup /\ ~sims'[e].solver_needs_setup)
                     => Returned(op'.calls, "setup_solver returned")
              /\ op'.name \in {"advance", "assign_initial_values",
                                "reset_initial_guess", "save_newton_solution",
                                "load_newton_solution", "write_checkpoint"}
                     => sims'[e].solver_needs_setup = sims[e].solver_needs_setup
              /\ (op'.name = "solve" /\ ~sims[e].solver_needs_setup)
                     => /\ RebuildCalls(op'.calls) = {}
                        /\ ~Returned(op'.calls, "setup_solver returned")]_vars

\* The initial guess of a ready engine on the finer mesh was reset after a
\* solve: the solved values of slot 0 gave way to those of slot 1.
C20_Witness ==
    /\ op.name = "reset_initial_guess" /\ ~op.raised
    /\ ~sims["sim"].solver_needs_setup
    /\ sims["sim"]._mesh = "fine"
    /\ sims["sim"].solver_status.solved
    /\ sims["sim"]._times[0] = F1
    /\ sims["sim"]._solutions[0].vec = ZeroVector
    /\ sims["sim"]._solutions[1].vec = ZeroVector
====
